---- MODULE Spec2Model ----
(***************************************************************************)
(* Model of finance.py: three net-present-value computations (cash payment *)
(* with discount, instalments indexed by inflation, instalments indexed by *)
(* the exchange rate), the choice of the option with the largest NPV, and  *)
(* the Streamlit script that reruns all of it on every widget change.      *)
(*                                                                         *)
(* Python floats are binary floating point numbers: every arithmetic       *)
(* operation returns the exact result rounded to the nearest representable *)
(* number, ties to even.  The model keeps that behaviour and scales the    *)
(* significand from 53 bits down to Precision bits.  A number is a         *)
(* fraction <<n, d>> in lowest terms with d > 0.                           *)
(***************************************************************************)
EXTENDS Integers, Sequences, FiniteSets, TLC

\* Bits of the significand of a float in the model (binary64 has 53).
Precision == 6

\* Largest number of instalments (plazo_meses) the model evaluates.
MaxPlazo == 3

None == "None"

----------------------------------------------------------------------------
(* Exact rational arithmetic, the mathematics the float operations round.  *)

Abs(x) == IF x < 0 THEN -x ELSE x

RECURSIVE GCD(_, _)
GCD(a, b) == IF b = 0 THEN a ELSE GCD(b, a % b)

RECURSIVE IPow(_, _)
IPow(b, k) == IF k = 0 THEN 1 ELSE b * IPow(b, k - 1)

Pow2(k) == IPow(2, k)

Rat(n, d) ==
    LET g == GCD(Abs(n), Abs(d))
        s == IF d < 0 THEN -1 ELSE 1
    IN  IF n = 0 THEN <<0, 1>> ELSE <<(s * n) \div g, (s * d) \div g>>

Zero == <<0, 1>>
One == <<1, 1>>
I2R(k) == <<k, 1>>

RAdd(a, b) ==
    LET g == GCD(a[2], b[2])
    IN  Rat(a[1] * (b[2] \div g) + b[1] * (a[2] \div g), (a[2] \div g) * b[2])
RNeg(a) == <<-a[1], a[2]>>
RSub(a, b) == RAdd(a, RNeg(b))
RMul(a, b) ==
    LET x == Rat(a[1], b[2])
        y == Rat(b[1], a[2])
    IN  <<x[1] * y[1], x[2] * y[2]>>
RDiv(a, b) == RMul(a, Rat(b[2], b[1]))
RPow(a, k) == <<IPow(a[1], k), IPow(a[2], k)>>
RAbs(a) == <<Abs(a[1]), a[2]>>
RLess(a, b) ==
    LET g == GCD(a[2], b[2])
    IN  a[1] * (b[2] \div g) < b[1] * (a[2] \div g)
RLeq(a, b) == a = b \/ RLess(a, b)

----------------------------------------------------------------------------
(* Rounding to nearest, ties to even, to a significand of Precision bits.  *)

\* Largest e with 2^e <= n/d, for n, d > 0.
RECURSIVE FloorLog2(_, _)
FloorLog2(n, d) ==
    IF n >= 2 * d THEN 1 + FloorLog2(n, 2 * d)
    ELSE IF n < d THEN FloorLog2(2 * n, d) - 1
    ELSE 0

\* Largest k <= s with 2^k dividing d.
RECURSIVE TwoPart(_, _)
TwoPart(d, s) == IF s > 0 /\ d % 2 = 0 THEN 1 + TwoPart(d \div 2, s - 1) ELSE 0

RoundNearestEven(q) ==
    IF q[1] = 0 THEN Zero
    ELSE
    LET sgn == IF q[1] < 0 THEN -1 ELSE 1
        n == Abs(q[1])
        d == q[2]
        e == FloorLog2(n, d)
        s == Precision - 1 - e          \* the significand is n/d * 2^s
        k == IF s > 0 THEN TwoPart(d, s) ELSE 0
        num == IF s > 0 THEN n * Pow2(s - k) ELSE n
        den == IF s > 0 THEN d \div Pow2(k) ELSE d * Pow2(-s)
        quo == num \div den
        rem == num % den
        sig == IF 2 * rem > den \/ (2 * rem = den /\ quo % 2 = 1)
               THEN quo + 1 ELSE quo
    IN  IF s > 0 THEN Rat(sgn * sig, Pow2(s)) ELSE <<sgn * sig * Pow2(-s), 1>>

\* The float operators of the source: +, -, *, / and ** with an int power.
FAdd(a, b) == RoundNearestEven(RAdd(a, b))
FSub(a, b) == RoundNearestEven(RSub(a, b))
FMul(a, b) == RoundNearestEven(RMul(a, b))
FDiv(a, b) == RoundNearestEven(RDiv(a, b))
FPow(a, k) == RoundNearestEven(RPow(a, k))

----------------------------------------------------------------------------
(* Conversions and the one non-integer power of the script.                *)

\* An int operand of a float operation is converted to float first.
IntToFloat(k) == RoundNearestEven(I2R(k))

\* int / int is the exact quotient rounded once.
IntTrueDiv(a, b) == RoundNearestEven(Rat(a, b))

\* x ** (1/12): the real twelfth root, rounded.  The real roots of the
\* values of 1 + tasa_descuento_anual_pct/100 the model uses, to 6 decimals.
TwelfthRoot(x) ==
    CASE x = <<1, 1>> -> One
      [] x = <<2, 1>> -> RoundNearestEven(Rat(1059463, 1000000))
      [] x = <<4, 1>> -> RoundNearestEven(Rat(1122462, 1000000))

\* tasa_descuento_mensual = (1 + tasa_descuento_anual_pct / 100)**(1/12) - 1
TasaDescuentoMensual(anual_pct) ==
    FSub(TwelfthRoot(FAdd(One, FDiv(anual_pct, I2R(100)))), One)

----------------------------------------------------------------------------
(* The bodies of the three functions, one operator per source expression.  *)

\* Mutant: the discount taken as a fraction, not as a percentage.
PagoContadoSinPorcentaje(capital, descuento_pct) ==
    FMul(IntToFloat(capital), FSub(One, descuento_pct))

\* pago_contado = monto_capital * (1 - descuento_pct / 100)
PagoContado(capital, descuento_pct) ==
    FMul(IntToFloat(capital), FSub(One, FDiv(descuento_pct, I2R(100))))

\* df of calcular_opcion_1_contado: one row, Mes 0.
FilaContado(pago) == [Mes |-> 0, Flujo |-> pago, ValorActual |-> pago]

\* Mutant: the instalments are deflated instead of inflated.
FactorAjusteDeflacion(inflacion, m) == FPow(FSub(One, inflacion), m)

\* Mutant: simple instead of compound adjustment.
FactorAjusteLineal(inflacion, m) ==
    FMul(FAdd(One, inflacion), IntToFloat(m))

\* factor_ajuste = (1 + inflacion_mensual) ** mes
FactorAjuste(inflacion, m) == FPow(FAdd(One, inflacion), m)

\* Mutant: each instalment adjusts the previous adjusted instalment.
RECURSIVE CuotaAjustadaIncremental(_, _, _)
CuotaAjustadaIncremental(cuota_base, inflacion, m) ==
    IF m = 0 THEN cuota_base
    ELSE FMul(CuotaAjustadaIncremental(cuota_base, inflacion, m - 1),
              FAdd(One, inflacion))

\* cuota_ajustada = cuota_capital_base * factor_ajuste
CuotaAjustada(cuota_base, inflacion, m) ==
    FMul(cuota_base, FactorAjuste(inflacion, m))

\* (1 + tasa_descuento_mensual) ** mes, the divisor of the present value.
FactorDescuento(tasa, m) == FPow(FAdd(One, tasa), m)

\* valor_actual_cuota = cuota / ((1 + tasa_descuento_mensual) ** mes)
ValorActualCuota(cuota, tasa, m) == FDiv(cuota, FactorDescuento(tasa, m))

\* Mutant: the exchange rate is projected one month too far.
TcProyectadoMesSiguiente(tc, devaluacion, m) ==
    FMul(tc, FPow(FAdd(One, devaluacion), m + 1))

\* tc_proyectado = tc_inicial * ((1 + devaluacion_mensual) ** mes)
TcProyectado(tc, devaluacion, m) == FMul(tc, FPow(FAdd(One, devaluacion), m))

\* cuota_en_ars = cuota_usd * tc_proyectado
CuotaEnArs(cuota_dolar, tc, devaluacion, m) ==
    FMul(cuota_dolar, TcProyectado(tc, devaluacion, m))

\* The row appended by one pass of the loop of calcular_opcion_2_inflacion.
FilaInflacion(cuota_base, inflacion, tasa, m) ==
    LET cuota == CuotaAjustada(cuota_base, inflacion, m)
    IN  [Mes |-> m, Flujo |-> cuota,
         ValorActual |-> ValorActualCuota(cuota, tasa, m)]

\* Mutant: the loop counts the months from 0.
FilaDolarDesdeCero(cuota_dolar, tc, devaluacion, tasa, m) ==
    LET cuota == CuotaEnArs(cuota_dolar, tc, devaluacion, m)
    IN  [Mes |-> m - 1, TCProyectado |-> TcProyectado(tc, devaluacion, m),
         Flujo |-> cuota, ValorActual |-> ValorActualCuota(cuota, tasa, m)]

\* The row appended by one pass of the loop of calcular_opcion_3_dolar.
FilaDolar(cuota_dolar, tc, devaluacion, tasa, m) ==
    LET cuota == CuotaEnArs(cuota_dolar, tc, devaluacion, m)
    IN  [Mes |-> m, TCProyectado |-> TcProyectado(tc, devaluacion, m),
         Flujo |-> cuota, ValorActual |-> ValorActualCuota(cuota, tasa, m)]

\* Mutant: the loop adds up the nominal cash flows.
AcumularFlujo(total, fila) == FAdd(total, fila.Flujo)

\* van += valor_actual_cuota
Acumular(total, fila) == FAdd(total, fila.ValorActual)

\* The value of van after the loop has appended the rows of filas.
RECURSIVE VanAcumulado(_)
VanAcumulado(filas) ==
    IF filas = <<>> THEN Zero
    ELSE Acumular(VanAcumulado(SubSeq(filas, 1, Len(filas) - 1)),
                  filas[Len(filas)])

\* calcular_opcion_1_contado as a function of its arguments.
CalcularOpcion1Contado(capital, descuento_pct) ==
    LET pago_contado == PagoContado(capital, descuento_pct)
    IN  [van |-> pago_contado, df |-> <<FilaContado(pago_contado)>>]

\* calcular_opcion_2_inflacion as a function of its arguments, for
\* arguments it returns on (plazo # 0, 1 + tasa # 0).
CalcularOpcion2Inflacion(capital, plazo, inflacion_pct, tasa) ==
    LET base == IntTrueDiv(capital, plazo)
        inflacion == FDiv(inflacion_pct, I2R(100))
        filas == [m \in 1 .. plazo |-> FilaInflacion(base, inflacion, tasa, m)]
    IN  [van |-> VanAcumulado(filas), df |-> filas]

\* calcular_opcion_3_dolar as a function of its arguments, for arguments
\* it returns on (plazo # 0, tc # 0, 1 + tasa # 0).
CalcularOpcion3Dolar(capital, plazo, tc, devaluacion_pct, tasa) ==
    LET dolares == FDiv(IntToFloat(capital), tc)
        cuota_dolar == FDiv(dolares, IntToFloat(plazo))
        devaluacion == FDiv(devaluacion_pct, I2R(100))
        filas == [m \in 1 .. plazo |->
                     FilaDolar(cuota_dolar, tc, devaluacion, tasa, m)]
    IN  [van |-> VanAcumulado(filas), df |-> filas]

\* Mutant: a later key replaces the best on a tie.
RECURSIVE MaxKeyUltimo(_, _, _)
MaxKeyUltimo(vals, k, best) ==
    IF k > Len(vals) THEN best
    ELSE MaxKeyUltimo(vals, k + 1,
                      IF RLeq(vals[best], vals[k]) THEN k ELSE best)

\* max(resultados, key=resultados.get): the first key, in insertion order,
\* whose value no later key exceeds; a later key replaces the best only
\* when its value is strictly greater.
RECURSIVE MaxKey(_, _, _)
MaxKey(vals, k, best) ==
    IF k > Len(vals) THEN best
    ELSE MaxKey(vals, k + 1, IF RLess(vals[best], vals[k]) THEN k ELSE best)

MejorOpcion(vals) == MaxKey(vals, 2, 1)

----------------------------------------------------------------------------
(* State: the widgets of the sidebar, the module-level names of the script,*)
(* the locals of the function being executed, and the position of the run. *)

VARIABLES
    monto_capital,              \* number_input, an int
    plazo_meses,                \* fixed by the script
    descuento_contado_pct,      \* slider
    tc_inicial,                 \* number_input, a float
    tasa_descuento_anual_pct,   \* slider
    inflacion_mensual_pct,      \* slider
    devaluacion_mensual_pct,    \* slider
    tasa_descuento_mensual,
    van1, df1, van2, df2, van3, df3,
    mejor_opcion,
    cuota_capital_base, inflacion_mensual,          \* calcular_opcion_2_inflacion
    capital_en_usd, cuota_usd, devaluacion_mensual, \* calcular_opcion_3_dolar
    flujos, van, mes,                               \* both loops
    pc,                         \* next statement of the script run
    error,                      \* exception that ended the run, or None
    pantalla                    \* what the page shows

widgets == <<monto_capital, plazo_meses, descuento_contado_pct, tc_inicial,
             tasa_descuento_anual_pct, inflacion_mensual_pct,
             devaluacion_mensual_pct>>
resultados == <<van1, df1, van2, df2, van3, df3>>
locales == <<cuota_capital_base, inflacion_mensual, capital_en_usd, cuota_usd,
             devaluacion_mensual, flujos, van, mes>>
vars == <<widgets, tasa_descuento_mensual, resultados, mejor_opcion, locales,
          pc, error, pantalla>>

\* Values the widgets take in the model.  The sidebar bounds them:
\* monto_capital >= 1000, tc_inicial >= 1.0, the percentages >= 0.
MontosWidget == {1024, 3072}
DescuentosWidget == {I2R(0), I2R(7)}
TiposDeCambioWidget == {I2R(1), I2R(3)}
TasasAnualesWidget == {I2R(100), I2R(300)}
InflacionesWidget == {I2R(0), I2R(9)}
DevaluacionesWidget == {I2R(5), I2R(9)}

\* Arguments the functions are called with when the caller is not the
\* sidebar: they include what the sidebar excludes.
Montos == {-3, 0, 7, 49}
Plazos == -1 .. MaxPlazo
Descuentos == {I2R(0), I2R(7), I2R(100)}
TiposDeCambio == {I2R(-2), I2R(0), I2R(1), I2R(3)}
Inflaciones == {I2R(0), I2R(5), I2R(9)}
Devaluaciones == {I2R(5), I2R(9)}
TasasMensuales == {I2R(-2), I2R(-1), I2R(0), Rat(1, 16)}

\* Net present values handed to the choice of the best option.
Vanes == {I2R(-1), I2R(0), Rat(1, 2), I2R(1), I2R(2)}

LocalesVacios ==
    /\ cuota_capital_base' = None
    /\ inflacion_mensual' = None
    /\ capital_en_usd' = None
    /\ cuota_usd' = None
    /\ devaluacion_mensual' = None
    /\ flujos' = None
    /\ van' = None
    /\ mes' = None

\* A fresh run of the script: no module-level name is bound yet.
ScriptVacio ==
    /\ tasa_descuento_mensual' = None
    /\ van1' = None /\ df1' = None
    /\ van2' = None /\ df2' = None
    /\ van3' = None /\ df3' = None
    /\ mejor_opcion' = None
    /\ LocalesVacios
    /\ error' = None

\* The page is first served with every widget at its default value.
Init ==
    /\ monto_capital = 1024
    /\ plazo_meses = MaxPlazo
    /\ descuento_contado_pct = I2R(7)
    /\ tc_inicial = I2R(3)
    /\ tasa_descuento_anual_pct = I2R(100)
    /\ inflacion_mensual_pct = I2R(9)
    /\ devaluacion_mensual_pct = I2R(5)
    /\ tasa_descuento_mensual = None
    /\ van1 = None /\ df1 = None
    /\ van2 = None /\ df2 = None
    /\ van3 = None /\ df3 = None
    /\ mejor_opcion = None
    /\ cuota_capital_base = None /\ inflacion_mensual = None
    /\ capital_en_usd = None /\ cuota_usd = None /\ devaluacion_mensual = None
    /\ flujos = None /\ van = None /\ mes = None
    /\ pc = "tasa"
    /\ error = None
    /\ pantalla = None

\* The three functions and the choice called on arbitrary arguments.
InitMotor ==
    /\ monto_capital \in Montos
    /\ plazo_meses \in Plazos
    /\ descuento_contado_pct \in Descuentos
    /\ tc_inicial \in TiposDeCambio
    /\ tasa_descuento_anual_pct = None
    /\ inflacion_mensual_pct \in Inflaciones
    /\ devaluacion_mensual_pct \in Devaluaciones
    /\ tasa_descuento_mensual \in TasasMensuales
    /\ van1 = None /\ df1 = None
    /\ van2 = None /\ df2 = None
    /\ van3 = None /\ df3 = None
    /\ mejor_opcion = None
    /\ cuota_capital_base = None /\ inflacion_mensual = None
    /\ capital_en_usd = None /\ cuota_usd = None /\ devaluacion_mensual = None
    /\ flujos = None /\ van = None /\ mes = None
    /\ pc = "opcion1"
    /\ error = None
    /\ pantalla = None

\* The choice of the best option on arbitrary net present values.
InitRecomendar ==
    /\ monto_capital = None
    /\ plazo_meses = None
    /\ descuento_contado_pct = None
    /\ tc_inicial = None
    /\ tasa_descuento_anual_pct = None
    /\ inflacion_mensual_pct = None
    /\ devaluacion_mensual_pct = None
    /\ tasa_descuento_mensual = None
    /\ van1 \in Vanes /\ df1 = None
    /\ van2 \in Vanes /\ df2 = None
    /\ van3 \in Vanes /\ df3 = None
    /\ mejor_opcion = None
    /\ cuota_capital_base = None /\ inflacion_mensual = None
    /\ capital_en_usd = None /\ cuota_usd = None /\ devaluacion_mensual = None
    /\ flujos = None /\ van = None /\ mes = None
    /\ pc = "recomendar"
    /\ error = None
    /\ pantalla = None

\* An uncaught exception ends the run at the statement that raised it.
Raise(e) ==
    /\ error' = e
    /\ pc' = pc

\* The calls that have returned, by the position of the run.
Devuelto1 == pc \notin {"tasa", "opcion1"}
Devuelto2 == pc \in {"opcion3", "opcion3_for", "recomendar", "mostrar", "listo"}
Devuelto3 == pc \in {"recomendar", "mostrar", "listo"}

----------------------------------------------------------------------------
(* The script, statement by statement.                                     *)

\* A widget changes value: Streamlit abandons the run in progress and runs
\* the whole script again from its first line; the page keeps showing the
\* elements of the last run until the new run replaces them.
CambioDeParametro ==
    /\ \/ \E v \in MontosWidget \ {monto_capital} :
            /\ monto_capital' = v
            /\ UNCHANGED <<descuento_contado_pct, tc_inicial,
                           tasa_descuento_anual_pct, inflacion_mensual_pct,
                           devaluacion_mensual_pct>>
       \/ \E v \in DescuentosWidget \ {descuento_contado_pct} :
            /\ descuento_contado_pct' = v
            /\ UNCHANGED <<monto_capital, tc_inicial,
                           tasa_descuento_anual_pct, inflacion_mensual_pct,
                           devaluacion_mensual_pct>>
       \/ \E v \in TiposDeCambioWidget \ {tc_inicial} :
            /\ tc_inicial' = v
            /\ UNCHANGED <<monto_capital, descuento_contado_pct,
                           tasa_descuento_anual_pct, inflacion_mensual_pct,
                           devaluacion_mensual_pct>>
       \/ \E v \in TasasAnualesWidget \ {tasa_descuento_anual_pct} :
            /\ tasa_descuento_anual_pct' = v
            /\ UNCHANGED <<monto_capital, descuento_contado_pct, tc_inicial,
                           inflacion_mensual_pct, devaluacion_mensual_pct>>
       \/ \E v \in InflacionesWidget \ {inflacion_mensual_pct} :
            /\ inflacion_mensual_pct' = v
            /\ UNCHANGED <<monto_capital, descuento_contado_pct, tc_inicial,
                           tasa_descuento_anual_pct, devaluacion_mensual_pct>>
       \/ \E v \in DevaluacionesWidget \ {devaluacion_mensual_pct} :
            /\ devaluacion_mensual_pct' = v
            /\ UNCHANGED <<monto_capital, descuento_contado_pct, tc_inicial,
                           tasa_descuento_anual_pct, inflacion_mensual_pct>>
    /\ ScriptVacio
    /\ pc' = "tasa"
    /\ UNCHANGED <<plazo_meses, pantalla>>

\* Mutant: the rate is derived from the default of the slider, not from
\* its current value.
CalcularTasaMensualFija ==
    /\ pc = "tasa"
    /\ error = None
    /\ tasa_descuento_mensual' = TasaDescuentoMensual(I2R(100))
    /\ pc' = "opcion1"
    /\ UNCHANGED <<widgets, resultados, mejor_opcion, locales, error, pantalla>>

\* tasa_descuento_mensual = (1 + tasa_descuento_anual_pct / 100)**(1/12) - 1
CalcularTasaMensual ==
    /\ pc = "tasa"
    /\ error = None
    /\ tasa_descuento_mensual' = TasaDescuentoMensual(tasa_descuento_anual_pct)
    /\ pc' = "opcion1"
    /\ UNCHANGED <<widgets, resultados, mejor_opcion, locales, error, pantalla>>

\* van1, df1 = calcular_opcion_1_contado(monto_capital, descuento_contado_pct)
Opcion1Contado ==
    /\ pc = "opcion1"
    /\ error = None
    /\ LET pago_contado == PagoContado(monto_capital, descuento_contado_pct)
       IN  /\ van1' = pago_contado
           /\ df1' = <<FilaContado(pago_contado)>>
    /\ pc' = "opcion2"
    /\ UNCHANGED <<widgets, tasa_descuento_mensual, van2, df2, van3, df3,
                   mejor_opcion, locales, error, pantalla>>

\* Mutant: the function validates plazo_meses before it computes.
Opcion2EntradaValidada ==
    /\ pc = "opcion2"
    /\ error = None
    /\ IF plazo_meses < 1
       THEN /\ Raise("InvalidInputError")
            /\ UNCHANGED locales
       ELSE /\ cuota_capital_base' = IntTrueDiv(monto_capital, plazo_meses)
            /\ inflacion_mensual' = FDiv(inflacion_mensual_pct, I2R(100))
            /\ flujos' = <<>>
            /\ van' = Zero
            /\ mes' = 0
            /\ pc' = "opcion2_for"
            /\ UNCHANGED <<capital_en_usd, cuota_usd, devaluacion_mensual,
                           error>>
    /\ UNCHANGED <<widgets, tasa_descuento_mensual, resultados, mejor_opcion,
                   pantalla>>

\* calcular_opcion_2_inflacion is entered: the statements before the loop.
Opcion2Entrada ==
    /\ pc = "opcion2"
    /\ error = None
    /\ IF plazo_meses = 0
       THEN /\ Raise("ZeroDivisionError")
            /\ UNCHANGED locales
       ELSE /\ cuota_capital_base' = IntTrueDiv(monto_capital, plazo_meses)
            /\ inflacion_mensual' = FDiv(inflacion_mensual_pct, I2R(100))
            /\ flujos' = <<>>
            /\ van' = Zero
            /\ mes' = 0
            /\ pc' = "opcion2_for"
            /\ UNCHANGED <<capital_en_usd, cuota_usd, devaluacion_mensual,
                           error>>
    /\ UNCHANGED <<widgets, tasa_descuento_mensual, resultados, mejor_opcion,
                   pantalla>>

\* One pass of the loop of calcular_opcion_2_inflacion.
Opcion2Cuota ==
    /\ pc = "opcion2_for"
    /\ error = None
    /\ mes < plazo_meses
    /\ IF FactorDescuento(tasa_descuento_mensual, mes + 1) = Zero
       THEN /\ Raise("ZeroDivisionError")
            /\ UNCHANGED locales
       ELSE LET fila == FilaInflacion(cuota_capital_base, inflacion_mensual,
                                      tasa_descuento_mensual, mes + 1)
            IN  /\ mes' = mes + 1
                /\ flujos' = Append(flujos, fila)
                /\ van' = Acumular(van, fila)
                /\ UNCHANGED <<cuota_capital_base, inflacion_mensual,
                               capital_en_usd, cuota_usd, devaluacion_mensual,
                               pc, error>>
    /\ UNCHANGED <<widgets, tasa_descuento_mensual, resultados, mejor_opcion,
                   pantalla>>

\* The loop is exhausted: df = pd.DataFrame(flujos); return van, df.
Opcion2Retorno ==
    /\ pc = "opcion2_for"
    /\ error = None
    /\ mes >= plazo_meses
    /\ van2' = van
    /\ df2' = flujos
    /\ LocalesVacios
    /\ pc' = "opcion3"
    /\ UNCHANGED <<widgets, tasa_descuento_mensual, van1, df1, van3, df3,
                   mejor_opcion, error, pantalla>>

\* calcular_opcion_3_dolar is entered: the statements before the loop.
Opcion3Entrada ==
    /\ pc = "opcion3"
    /\ error = None
    /\ IF tc_inicial = Zero \/ plazo_meses = 0
       THEN /\ Raise("ZeroDivisionError")
            /\ UNCHANGED locales
       ELSE /\ capital_en_usd' = FDiv(IntToFloat(monto_capital), tc_inicial)
            /\ cuota_usd' = FDiv(capital_en_usd', IntToFloat(plazo_meses))
            /\ devaluacion_mensual' = FDiv(devaluacion_mensual_pct, I2R(100))
            /\ flujos' = <<>>
            /\ van' = Zero
            /\ mes' = 0
            /\ pc' = "opcion3_for"
            /\ UNCHANGED <<cuota_capital_base, inflacion_mensual, error>>
    /\ UNCHANGED <<widgets, tasa_descuento_mensual, resultados, mejor_opcion,
                   pantalla>>

\* One pass of the loop of calcular_opcion_3_dolar.
Opcion3Cuota ==
    /\ pc = "opcion3_for"
    /\ error = None
    /\ mes < plazo_meses
    /\ IF FactorDescuento(tasa_descuento_mensual, mes + 1) = Zero
       THEN /\ Raise("ZeroDivisionError")
            /\ UNCHANGED locales
       ELSE LET fila == FilaDolar(cuota_usd, tc_inicial, devaluacion_mensual,
                                  tasa_descuento_mensual, mes + 1)
            IN  /\ mes' = mes + 1
                /\ flujos' = Append(flujos, fila)
                /\ van' = Acumular(van, fila)
                /\ UNCHANGED <<cuota_capital_base, inflacion_mensual,
                               capital_en_usd, cuota_usd, devaluacion_mensual,
                               pc, error>>
    /\ UNCHANGED <<widgets, tasa_descuento_mensual, resultados, mejor_opcion,
                   pantalla>>

\* The loop is exhausted: df = pd.DataFrame(flujos); return van, df.
Opcion3Retorno ==
    /\ pc = "opcion3_for"
    /\ error = None
    /\ mes >= plazo_meses
    /\ van3' = van
    /\ df3' = flujos
    /\ LocalesVacios
    /\ pc' = "recomendar"
    /\ UNCHANGED <<widgets, tasa_descuento_mensual, van1, df1, van2, df2,
                   mejor_opcion, error, pantalla>>

\* resultados = {...}; mejor_opcion = max(resultados, key=resultados.get)
Recomendar ==
    /\ pc = "recomendar"
    /\ error = None
    /\ mejor_opcion' = MejorOpcion(<<van1, van2, van3>>)
    /\ pc' = "mostrar"
    /\ UNCHANGED <<widgets, tasa_descuento_mensual, resultados, locales,
                   error, pantalla>>

\* st.info, the three st.metric and the three expanders with their tables.
Mostrar ==
    /\ pc = "mostrar"
    /\ error = None
    /\ pantalla' = [mejor_opcion |-> mejor_opcion,
                    van1 |-> van1, van2 |-> van2, van3 |-> van3,
                    df1 |-> df1, df2 |-> df2, df3 |-> df3]
    /\ pc' = "listo"
    /\ UNCHANGED <<widgets, tasa_descuento_mensual, resultados, mejor_opcion,
                   locales, error>>

Next ==
    \/ CambioDeParametro
    \/ CalcularTasaMensual
    \/ Opcion1Contado
    \/ Opcion2Entrada
    \/ Opcion2Cuota
    \/ Opcion2Retorno
    \/ Opcion3Entrada
    \/ Opcion3Cuota
    \/ Opcion3Retorno
    \/ Recomendar
    \/ Mostrar

Spec == Init /\ [][Next]_vars

NextMotor ==
    \/ Opcion1Contado
    \/ Opcion2Entrada
    \/ Opcion2Cuota
    \/ Opcion2Retorno
    \/ Opcion3Entrada
    \/ Opcion3Cuota
    \/ Opcion3Retorno
    \/ Recomendar

SpecMotor == InitMotor /\ [][NextMotor]_vars

NextRecomendar == Recomendar

SpecRecomendar == InitRecomendar /\ [][NextRecomendar]_vars

----------------------------------------------------------------------------
(* Properties.                                                             *)

\* |a - b| <= k * 2^-Precision * |b|: a and b differ by at most k times the
\* unit roundoff, relative to b.
Within(a, b, k) ==
    RLeq(RMul(RAbs(RSub(a, b)), I2R(Pow2(Precision))), RMul(I2R(k), RAbs(b)))

\* The real sum of the present values of filas.
RECURSIVE SumaExacta(_)
SumaExacta(filas) ==
    IF filas = <<>> THEN Zero
    ELSE RAdd(SumaExacta(Tail(filas)), Head(filas).ValorActual)

\* The float sum of the present values of filas, added in row order.
RECURSIVE SumaValorActual(_)
SumaValorActual(filas) ==
    IF filas = <<>> THEN Zero
    ELSE FAdd(SumaValorActual(SubSeq(filas, 1, Len(filas) - 1)),
              filas[Len(filas)].ValorActual)

Vals == <<van1, van2, van3>>

\* C1: once the best option is chosen, no option has a larger net present
\* value than the chosen one and every option declared before it has a
\* strictly smaller one.
C1_MejorEsPrimerMaximo ==
    pc = "mostrar" =>
        /\ mejor_opcion \in 1 .. 3
        /\ \A k \in 1 .. 3 : RLeq(Vals[k], Vals[mejor_opcion])
        /\ \A k \in 1 .. 3 :
              k < mejor_opcion => RLess(Vals[k], Vals[mejor_opcion])

\* A tie for the maximum between options 2 and 3 has been resolved.
C1_Witness ==
    /\ pc = "mostrar"
    /\ error = None
    /\ van2 = van3
    /\ RLess(van1, van2)
    /\ mejor_opcion = 2

\* An input that violates a precondition of the specification.
PlazoInvalido == plazo_meses < 1
TcInvalido == RLeq(tc_inicial, Zero)
MontoInvalido == monto_capital < 0

\* The inputs on which some statement of the run divides by zero.
DivisionPorCero ==
    \/ plazo_meses = 0
    \/ tc_inicial = Zero
    \/ (plazo_meses >= 1 /\ tasa_descuento_mensual = I2R(-1))

C3_VanEsSuma ==
    /\ (pc \in {"opcion2_for", "opcion3_for"} /\ error = None) =>
          van = SumaValorActual(flujos)
    /\ Devuelto1 => van1 = SumaValorActual(df1)
    /\ Devuelto2 => van2 = SumaValorActual(df2)
    /\ Devuelto3 => van3 = SumaValorActual(df3)
    /\ (Devuelto2 /\ monto_capital >= 0
          /\ RLeq(Zero, tasa_descuento_mensual)) =>
          Within(van2, SumaExacta(df2), Len(df2))
    /\ (Devuelto3 /\ monto_capital >= 0 /\ RLess(Zero, tc_inicial)
          /\ RLeq(Zero, tasa_descuento_mensual)) =>
          Within(van3, SumaExacta(df3), Len(df3))

\* Both instalment options returned a schedule of several rows.
C3_Witness ==
    /\ pc = "recomendar"
    /\ error = None
    /\ monto_capital > 0
    /\ Len(df2) >= 2
    /\ Len(df3) >= 2
    /\ van3 # SumaExacta(df3)

\* Rows k of filas carry Mes = k: 1, 2, ... without gap or duplicate.
MesesContiguos(filas) == \A k \in 1 .. Len(filas) : filas[k].Mes = k

\* C4: for plazo_meses >= 1 the schedules of options 2 and 3 have exactly
\* plazo_meses rows, row k carrying Mes = k, and while a loop runs the rows
\* appended so far are 1 .. mes; option 1 has one row with Mes = 0.
C4_FilasPorPeriodo ==
    /\ Devuelto1 => (Len(df1) = 1 /\ df1[1].Mes = 0)
    /\ (pc \in {"opcion2_for", "opcion3_for"} /\ error = None) =>
          (Len(flujos) = mes /\ MesesContiguos(flujos))
    /\ (Devuelto2 /\ plazo_meses >= 1) =>
          (Len(df2) = plazo_meses /\ MesesContiguos(df2))
    /\ (Devuelto3 /\ plazo_meses >= 1) =>
          (Len(df3) = plazo_meses /\ MesesContiguos(df3))

\* Both instalment options returned a schedule of several rows.
C4_Witness ==
    /\ Devuelto3
    /\ plazo_meses >= 2
    /\ Len(df2) = plazo_meses
    /\ Len(df3) = plazo_meses

\* The real number principal * (1 - discountPct/100).
PagoExacto == RMul(I2R(monto_capital),
                   RSub(One, RDiv(descuento_contado_pct, I2R(100))))

\* C5 as stated: the net present value of option 1 is the number
\* principal * (1 - discountPct/100), and both fields of its row equal it.
C5_PagoExacto ==
    (Devuelto1 /\ monto_capital >= 0) =>
        /\ van1 = PagoExacto
        /\ df1 = <<[Mes |-> 0, Flujo |-> van1, ValorActual |-> van1]>>

\* C5 amended: option 1 returns one row with Mes 0 whose cash flow and
\* present value both equal the net present value; that value is the
\* principal for a discount of 0, is 0 for a discount of 100, and otherwise
\* is within 4 unit roundoffs (relative to the principal) of
\* principal * (1 - discountPct/100).
C5_PagoRedondeado ==
    Devuelto1 =>
        /\ df1 = <<[Mes |-> 0, Flujo |-> van1, ValorActual |-> van1]>>
        /\ descuento_contado_pct = I2R(0) => van1 = I2R(monto_capital)
        /\ descuento_contado_pct = I2R(100) => van1 = Zero
        /\ RLeq(RMul(RAbs(RSub(van1, PagoExacto)), I2R(Pow2(Precision))),
                I2R(4 * Abs(monto_capital)))

\* Option 1 returned for a discount of 7 per cent.
C5_Witness ==
    /\ Devuelto1
    /\ monto_capital > 0
    /\ descuento_contado_pct = I2R(7)

\* The inputs the specification calls valid for the instalment options,
\* with a discount factor 1 + tasa_descuento_mensual that is positive.
EntradasValidas ==
    /\ monto_capital >= 0
    /\ plazo_meses >= 1
    /\ RLess(I2R(-1), tasa_descuento_mensual)

\* The net present value option 2 returns for another inflation.
VanConInflacion(inflacion_pct) ==
    CalcularOpcion2Inflacion(monto_capital, plazo_meses, inflacion_pct,
                             tasa_descuento_mensual).van

\* C6 as stated: for principal >= 0 and plazo_meses >= 1, a larger
\* inflation gives a strictly larger net present value of option 2.
C6_EstrictamenteCreciente ==
    (Devuelto2 /\ monto_capital >= 0 /\ plazo_meses >= 1) =>
        \A i \in Inflaciones :
            RLess(i, inflacion_mensual_pct) =>
                RLess(VanConInflacion(i), van2)

\* C6 amended: for principal >= 0, plazo_meses >= 1 and a monthly discount
\* rate above -1, a larger inflation never gives a smaller net present
\* value of option 2.
C6_NoDecreciente ==
    (Devuelto2 /\ EntradasValidas) =>
        \A i \in Inflaciones :
            RLess(i, inflacion_mensual_pct) =>
                RLeq(VanConInflacion(i), van2)

\* Option 2 returned for the largest inflation and a positive principal,
\* and its net present value exceeds the one of a smaller inflation.
C6_Witness ==
    /\ Devuelto2
    /\ EntradasValidas
    /\ monto_capital > 0
    /\ plazo_meses >= 2
    /\ inflacion_mensual_pct = I2R(9)
    /\ RLess(VanConInflacion(I2R(0)), van2)

\* The net present value of plazo instalments of cuota discounted at tasa,
\* added in the order of the periods.
RECURSIVE ValorCuotasIguales(_, _, _)
ValorCuotasIguales(cuota, tasa, plazo) ==
    IF plazo = 0 THEN Zero
    ELSE FAdd(ValorCuotasIguales(cuota, tasa, plazo - 1),
              FDiv(cuota, FPow(FAdd(One, tasa), plazo)))

\* With inflation 0 every row of option 2 carries the float principal/plazo
\* and the net present value is the value of plazo equal instalments.
CuotasSinInflacion ==
    /\ \A k \in 1 .. Len(df2) :
          df2[k].Flujo = IntTrueDiv(monto_capital, plazo_meses)
    /\ Len(df2) = plazo_meses
    /\ van2 = ValorCuotasIguales(IntTrueDiv(monto_capital, plazo_meses),
                                 tasa_descuento_mensual, plazo_meses)

\* C7 as stated: with inflation 0 the rows carry principal/plazo, the net
\* present value is the value of the equal instalments, and with a discount
\* rate of 0 as well it equals the principal.
C7_SinInflacionExacto ==
    (Devuelto2 /\ EntradasValidas /\ inflacion_mensual_pct = Zero) =>
        /\ CuotasSinInflacion
        /\ tasa_descuento_mensual = Zero => van2 = I2R(monto_capital)

\* C7 amended: with inflation 0 the rows carry principal/plazo, the net
\* present value is the value of the equal instalments, and with a discount
\* rate of 0 as well it is within plazo unit roundoffs of the principal.
C7_SinInflacionRedondeado ==
    (Devuelto2 /\ EntradasValidas /\ inflacion_mensual_pct = Zero) =>
        /\ CuotasSinInflacion
        /\ tasa_descuento_mensual = Zero =>
              Within(van2, I2R(monto_capital), plazo_meses)

\* Option 2 returned several rows for inflation 0 and discount rate 0.
C7_Witness ==
    /\ Devuelto2
    /\ monto_capital > 0
    /\ plazo_meses >= 2
    /\ inflacion_mensual_pct = Zero
    /\ tasa_descuento_mensual = Zero

\* Row k of filas follows the formula of option 2: the base instalment
\* times (1 + inflation/100)^k, and that cash flow over (1 + tasa)^k.
FilasSegunFormula(filas) ==
    \A k \in 1 .. Len(filas) :
        /\ filas[k].Flujo =
              FMul(IntTrueDiv(monto_capital, plazo_meses),
                   FPow(FAdd(One, FDiv(inflacion_mensual_pct, I2R(100))), k))
        /\ filas[k].ValorActual =
              FDiv(filas[k].Flujo, FPow(FAdd(One, tasa_descuento_mensual), k))

\* C9: every row of option 2, while the loop runs and once returned, has
\* cash flow (principal/plazo) * (1 + inflation/100)^Mes, computed from the
\* base instalment, and present value cash flow / (1 + tasa)^Mes.
C9_CuotaDesdeLaBase ==
    /\ (pc = "opcion2_for" /\ error = None) => FilasSegunFormula(flujos)
    /\ Devuelto2 => FilasSegunFormula(df2)

\* Option 2 returned several rows for a positive inflation.
C9_Witness ==
    /\ Devuelto2
    /\ monto_capital > 0
    /\ Len(df2) >= 3
    /\ inflacion_mensual_pct = I2R(9)

\* Options 2 and 3 both returned, for valid inputs and equal rates.
MismaTasa ==
    /\ Devuelto3
    /\ EntradasValidas
    /\ RLess(Zero, tc_inicial)
    /\ devaluacion_mensual_pct = inflacion_mensual_pct

\* C10 as stated: with devaluation equal to inflation, option 3 has the
\* cash flows, present values and net present value of option 2 whatever
\* the initial exchange rate, and the best option is never option 3.
C10_IndependienteDelTc ==
    MismaTasa =>
        /\ Len(df3) = Len(df2)
        /\ \A k \in 1 .. Len(df3) :
              /\ df3[k].Flujo = df2[k].Flujo
              /\ df3[k].ValorActual = df2[k].ValorActual
        /\ van3 = van2
        /\ pc = "mostrar" => mejor_opcion # 3

\* C10 amended: with devaluation equal to inflation, option 3 has the cash
\* flows, present values and net present value of option 2 up to rounding
\* (8, 10 and 4 * (plazo + 2) unit roundoffs); they are equal, and option 3
\* is never the best, when the initial exchange rate is 1; the projected
\* exchange rate of row k is tc_inicial * (1 + devaluation/100)^k.
C10_IgualSalvoRedondeo ==
    MismaTasa =>
        /\ Len(df3) = Len(df2)
        /\ \A k \in 1 .. Len(df3) :
              /\ df3[k].TCProyectado =
                    FMul(tc_inicial,
                         FPow(FAdd(One, FDiv(devaluacion_mensual_pct,
                                             I2R(100))), k))
              /\ Within(df3[k].Flujo, df2[k].Flujo, 8)
              /\ Within(df3[k].ValorActual, df2[k].ValorActual, 10)
        /\ Within(van3, van2, 4 * (plazo_meses + 2))
        /\ tc_inicial = One =>
              /\ \A k \in 1 .. Len(df3) :
                    /\ df3[k].Flujo = df2[k].Flujo
                    /\ df3[k].ValorActual = df2[k].ValorActual
              /\ van3 = van2
              /\ pc = "mostrar" => mejor_opcion # 3

\* Both options returned for equal rates and an exchange rate other than 1,
\* and rounding separated their net present values.
C10_Witness ==
    /\ MismaTasa
    /\ pc = "mostrar"
    /\ error = None
    /\ monto_capital > 0
    /\ tc_inicial = I2R(3)
    /\ plazo_meses >= 2
    /\ van3 # van2

\* The monthly rate derived from the current value of the slider.
TasaActual == TasaDescuentoMensual(tasa_descuento_anual_pct)

\* C8: whatever widget changes came before, every result the run has bound
\* so far is the one computed from the current widget values alone, and
\* once the run has rendered, the page shows exactly these three results
\* and the best of them, and nothing of an earlier run.
C8_PantallaActual ==
    /\ pc # "tasa" => tasa_descuento_mensual = TasaActual
    /\ Devuelto1 =>
          [van |-> van1, df |-> df1] =
              CalcularOpcion1Contado(monto_capital, descuento_contado_pct)
    /\ Devuelto2 =>
          [van |-> van2, df |-> df2] =
              CalcularOpcion2Inflacion(monto_capital, plazo_meses,
                                       inflacion_mensual_pct, TasaActual)
    /\ Devuelto3 =>
          [van |-> van3, df |-> df3] =
              CalcularOpcion3Dolar(monto_capital, plazo_meses, tc_inicial,
                                   devaluacion_mensual_pct, TasaActual)
    /\ pc \in {"mostrar", "listo"} =>
          mejor_opcion = MejorOpcion(<<van1, van2, van3>>)
    /\ pc = "listo" =>
          pantalla = [mejor_opcion |-> mejor_opcion,
                      van1 |-> van1, van2 |-> van2, van3 |-> van3,
                      df1 |-> df1, df2 |-> df2, df3 |-> df3]

\* The page was rendered again after every widget had left its default.
C8_Witness ==
    /\ pc = "listo"
    /\ monto_capital = 3072
    /\ descuento_contado_pct = I2R(0)
    /\ tc_inicial = I2R(1)
    /\ tasa_descuento_anual_pct = I2R(300)
    /\ inflacion_mensual_pct = I2R(0)
    /\ devaluacion_mensual_pct = I2R(9)

====
